---- MODULE Spec2Model ----
(***************************************************************************)
(* fillstruct (davidrjenni/reftools, cmd/fillstruct/main.go).              *)
(*                                                                         *)
(* The synthesizer (zeroValue, filler.zero, filler.fixExprPos), the two    *)
(* locators (findCompositeLit for byOffset, the ast.Inspect callback of    *)
(* byLine) and the control flow of main are modelled.  go/types types are  *)
(* records, the AST nodes that zero builds are records carrying the        *)
(* position markers the code sets.                                         *)
(***************************************************************************)
EXTENDS Integers, Sequences, FiniteSets, TLC

VARIABLES
    pc,        \* position of the run: "call" | "returned" for zeroValue; main's steps
    pkg,       \* filler.pkg / pkg.Pkg: the package of the literal being filled
    lit,       \* the *ast.CompositeLit handed to zeroValue
    info,      \* the litInfo handed to zeroValue
    res,       \* what zeroValue returned: [expr, lines, st]
    file,      \* the parsed file main works on
    offset,    \* flag -offset
    line,      \* flag -line
    env,       \* outcome of the parts of byOffset/byLine that depend on the host
    err,       \* the error main holds after a search
    ran,       \* the searches that ran, in order
    emitted,   \* the output sequences written to stdout, in order
    exit       \* how the run ended

vars == <<pc, pkg, lit, info, res, file, offset, line, env, err, ran, emitted, exit>>

----------------------------------------------------------------------------
(* Bounds of the model.                                                    *)

\* length of the array types [MaxArrayLen]bool of the type universe
MaxArrayLen == 3
\* number of keyed entries a literal handed to zeroValue may already hold
MaxExisting == 2
\* depth of nested zero calls after which a descent is reported as diverged
MaxDepth == 14
\* number of outermost composite literals in the file main works on
MaxItems == 2

----------------------------------------------------------------------------
(* go/types: the type universe.                                            *)

ThisPkg == "main"
OtherPkg == "other"
Pkgs == {ThisPkg, OtherPkg}

NoType == [kind |-> "NoType"]

Basic(k) == [kind |-> "Basic", bkind |-> k]
NamedT(n) == [kind |-> "Named", name |-> n]
PointerT(e) == [kind |-> "Pointer", elem |-> e]
ArrayT(e, n) == [kind |-> "Array", elem |-> e, len |-> n]
MapT(k, e) == [kind |-> "Map", key |-> k, elem |-> e]
SliceT(e) == [kind |-> "Slice", elem |-> e]
ChanT(e) == [kind |-> "Chan", elem |-> e]
InterfaceT == [kind |-> "Interface"]
SignatureT == [kind |-> "Signature"]
\* a *types.Struct: id stands for the pointer, which is the type's identity
StructT(id) == [kind |-> "Struct", id |-> id]

Field(n, e, t) == [name |-> n, exported |-> e, typ |-> t]

IntT == Basic("Int")
StringT == Basic("String")
BoolT == Basic("Bool")

\* the fields of each struct type, in declaration order
StructFields(id) ==
    CASE id = "sUser"    -> << Field("ID", TRUE, Basic("Int64")),
                               Field("Name", TRUE, StringT),
                               Field("Addr", TRUE, PointerT(NamedT("Address"))) >>
      [] id = "sAddress" -> << Field("City", TRUE, StringT),
                               Field("ZIP", TRUE, IntT),
                               Field("LatLng", TRUE, ArrayT(Basic("Float64"), 2)) >>
      [] id = "sNode"    -> << Field("Val", TRUE, IntT),
                               Field("next", FALSE, PointerT(NamedT("Node"))),
                               Field("Kids", TRUE, ArrayT(NamedT("Node"), 1)) >>
      [] id = "sLeaf"    -> << Field("X", TRUE, IntT),
                               Field("y", FALSE, BoolT) >>
      [] id = "sPair"    -> << Field("L", TRUE, NamedT("Leaf")),
                               Field("R", TRUE, NamedT("Leaf")),
                               Field("p", FALSE, PointerT(NamedT("Leaf"))),
                               Field("Back", TRUE, PointerT(NamedT("Pair"))) >>
      [] id = "sInner"   -> << Field("name", FALSE, StringT),
                               Field("N", TRUE, IntT) >>
      [] id = "sOuter"   -> << Field("name", FALSE, StringT),
                               Field("In", TRUE, NamedT("Inner")),
                               Field("N", TRUE, IntT) >>
      [] id = "sExt"     -> << Field("Pub", TRUE, IntT),
                               Field("priv", FALSE, StringT),
                               Field("Sub", TRUE, PointerT(NamedT("ExtSub"))) >>
      [] id = "sExtSub"  -> << Field("hid", FALSE, IntT),
                               Field("Vis", TRUE, BoolT) >>
      [] id = "sWrap"    -> << Field("E", TRUE, NamedT("Ext")),
                               Field("l", FALSE, NamedT("Leaf")) >>
      [] id = "sMaps"    -> << Field("A", TRUE, MapT(StringT, IntT)),
                               Field("B", TRUE, MapT(NamedT("hidden"), IntT)),
                               Field("C", TRUE, MapT(StringT, NamedT("hidden"))),
                               Field("D", TRUE, MapT(NamedT("Leaf"), PointerT(NamedT("Leaf")))),
                               Field("E", TRUE, MapT(StringT, ArrayT(IntT, 2))) >>
      [] id = "sMapNamed" -> << Field("K", TRUE, IntT),
                                Field("H", TRUE, MapT(StringT, NamedT("HMap"))) >>
      [] id = "sArrs"    -> << Field("Z", TRUE, ArrayT(IntT, 0)),
                               Field("T", TRUE, ArrayT(BoolT, MaxArrayLen)),
                               Field("N", TRUE, ArrayT(ArrayT(StringT, 1), 2)),
                               Field("S", TRUE, ArrayT(NamedT("Leaf"), 1)) >>
      [] id = "sArrNamed" -> << Field("K", TRUE, IntT),
                                Field("H", TRUE, ArrayT(NamedT("HMap"), 2)),
                                Field("U", TRUE, ArrayT(NamedT("hidden"), 1)) >>
      [] id = "sKinds"   -> << Field("B", TRUE, BoolT),
                               Field("U", TRUE, Basic("Uint8")),
                               Field("UP", TRUE, Basic("Uintptr")),
                               Field("USP", TRUE, Basic("UnsafePointer")),
                               Field("F", TRUE, Basic("Float32")),
                               Field("C", TRUE, Basic("Complex128")) >>
      [] id = "sRefs"    -> << Field("Ch", TRUE, ChanT(IntT)),
                               Field("If", TRUE, InterfaceT),
                               Field("Fn", TRUE, SignatureT),
                               Field("Sl", TRUE, SliceT(IntT)),
                               Field("P", TRUE, PointerT(IntT)) >>
      [] id = "sHolder"  -> << Field("P", TRUE, StructT("sAnon1")),
                               Field("Q", TRUE, PointerT(StructT("sAnon2"))) >>
      [] id = "sAnon1"   -> << Field("a", FALSE, IntT) >>
      [] id = "sAnon2"   -> << Field("b", FALSE, NamedT("Leaf")) >>
      [] id = "sBroken"  -> << Field("X", TRUE, Basic("Invalid")),
                               Field("I", TRUE, ArrayT(Basic("Invalid"), 2)),
                               Field("M", TRUE, MapT(StringT, Basic("Invalid"))) >>
      [] id = "sRec"     -> << Field("K", TRUE, IntT),
                               Field("M", TRUE, NamedT("RecMap")) >>
      [] id = "sBox"     -> << Field("Tags", TRUE, SliceT(StringT)),
                               Field("Items", TRUE, SliceT(NamedT("Box"))),
                               Field("In", TRUE, PointerT(NamedT("Box"))) >>
      [] OTHER           -> << >>

\* the package whose source holds the struct type, hence declares its fields
StructPkg(id) ==
    IF id \in {"sExt", "sExtSub"} THEN OtherPkg ELSE ThisPkg

\* the declaration of each named type: t.Obj().Pkg(), t.Obj().Exported(), t.Underlying()
NamedDecl(n) ==
    CASE n = "User"    -> [pkg |-> ThisPkg, exported |-> TRUE, underlying |-> StructT("sUser")]
      [] n = "Address" -> [pkg |-> ThisPkg, exported |-> TRUE, underlying |-> StructT("sAddress")]
      [] n = "Node"    -> [pkg |-> ThisPkg, exported |-> TRUE, underlying |-> StructT("sNode")]
      [] n = "Leaf"    -> [pkg |-> ThisPkg, exported |-> TRUE, underlying |-> StructT("sLeaf")]
      [] n = "Pair"    -> [pkg |-> ThisPkg, exported |-> TRUE, underlying |-> StructT("sPair")]
      [] n = "Inner"   -> [pkg |-> ThisPkg, exported |-> TRUE, underlying |-> StructT("sInner")]
      [] n = "Outer"   -> [pkg |-> ThisPkg, exported |-> TRUE, underlying |-> StructT("sOuter")]
      [] n = "Ext"     -> [pkg |-> OtherPkg, exported |-> TRUE, underlying |-> StructT("sExt")]
      [] n = "ExtSub"  -> [pkg |-> OtherPkg, exported |-> TRUE, underlying |-> StructT("sExtSub")]
      [] n = "Wrap"    -> [pkg |-> ThisPkg, exported |-> TRUE, underlying |-> StructT("sWrap")]
      [] n = "Maps"    -> [pkg |-> ThisPkg, exported |-> TRUE, underlying |-> StructT("sMaps")]
      [] n = "MapNamed" -> [pkg |-> ThisPkg, exported |-> TRUE, underlying |-> StructT("sMapNamed")]
      [] n = "Arrs"    -> [pkg |-> ThisPkg, exported |-> TRUE, underlying |-> StructT("sArrs")]
      [] n = "ArrNamed" -> [pkg |-> ThisPkg, exported |-> TRUE, underlying |-> StructT("sArrNamed")]
      [] n = "Kinds"   -> [pkg |-> ThisPkg, exported |-> TRUE, underlying |-> StructT("sKinds")]
      [] n = "Refs"    -> [pkg |-> ThisPkg, exported |-> TRUE, underlying |-> StructT("sRefs")]
      [] n = "Holder"  -> [pkg |-> ThisPkg, exported |-> TRUE, underlying |-> StructT("sHolder")]
      [] n = "Broken"  -> [pkg |-> ThisPkg, exported |-> TRUE, underlying |-> StructT("sBroken")]
      [] n = "Rec"     -> [pkg |-> ThisPkg, exported |-> TRUE, underlying |-> StructT("sRec")]
      [] n = "Box"     -> [pkg |-> ThisPkg, exported |-> TRUE, underlying |-> StructT("sBox")]
      [] n = "hidden"  -> [pkg |-> OtherPkg, exported |-> FALSE, underlying |-> IntT]
      [] n = "HMap"    -> [pkg |-> OtherPkg, exported |-> TRUE,
                           underlying |-> MapT(NamedT("hidden"), IntT)]
      [] n = "RecMap"  -> [pkg |-> ThisPkg, exported |-> TRUE,
                           underlying |-> MapT(StringT, NamedT("RecMap"))]

Underlying(t) == IF t.kind = "Named" THEN NamedDecl(t.name).underlying ELSE t

IsStruct(t) == t.kind = "Struct"

----------------------------------------------------------------------------
(* typeString: the name a type is spelled with inside package p, and       *)
(* whether it can be spelled at all.  A named type is spelled by its name, *)
(* qualified when it is foreign; a foreign unexported name and a foreign   *)
(* struct shape with unexported fields cannot be spelled.                  *)

RECURSIVE TypeString(_, _)
RECURSIVE FieldsString(_, _, _)

TS(ok, name) == [ok |-> ok, name |-> name]

FieldsString(p, fs, i) ==
    IF i > Len(fs) THEN TS(TRUE, "")
    ELSE LET h == TypeString(p, fs[i].typ)
             r == FieldsString(p, fs, i + 1)
         IN TS(h.ok /\ r.ok, fs[i].name \o " " \o h.name \o ";" \o r.name)

TypeString(p, t) ==
    CASE t.kind = "Basic" ->
            TS(TRUE, IF t.bkind = "UnsafePointer" THEN "unsafe.Pointer" ELSE t.bkind)
      [] t.kind = "Named" ->
            LET d == NamedDecl(t.name)
            IN IF d.pkg = p THEN TS(TRUE, t.name)
               ELSE TS(d.exported, d.pkg \o "." \o t.name)
      [] t.kind = "Pointer" ->
            LET e == TypeString(p, t.elem) IN TS(e.ok, "*" \o e.name)
      [] t.kind = "Array" ->
            LET e == TypeString(p, t.elem)
            IN TS(e.ok, "[" \o ToString(t.len) \o "]" \o e.name)
      [] t.kind = "Slice" ->
            LET e == TypeString(p, t.elem) IN TS(e.ok, "[]" \o e.name)
      [] t.kind = "Chan" ->
            LET e == TypeString(p, t.elem) IN TS(e.ok, "chan " \o e.name)
      [] t.kind = "Map" ->
            LET k == TypeString(p, t.key)
                e == TypeString(p, t.elem)
            IN TS(k.ok /\ e.ok, "map[" \o k.name \o "]" \o e.name)
      [] t.kind = "Struct" ->
            LET fs == StructFields(t.id)
                r == FieldsString(p, fs, 1)
                visible == StructPkg(t.id) = p \/ \A i \in 1..Len(fs) : fs[i].exported
            IN TS(r.ok /\ visible, "struct{" \o r.name \o "}")
      [] t.kind = "Interface" -> TS(TRUE, "interface{}")
      [] t.kind = "Signature" -> TS(TRUE, "func()")
      [] OTHER -> TS(FALSE, "")

----------------------------------------------------------------------------
(* go/ast: the nodes zero builds and fixExprPos rewrites.  A field named   *)
(* ...Pos, Lbrace, Rbrace, Lparen, ... is a token.Pos; 0 is token.NoPos.   *)

NoExpr == [node |-> "nil"]

Ident(name, pos) == [node |-> "Ident", Name |-> name, NamePos |-> pos]
\* ast.NewIdent
NewIdent(name) == Ident(name, 0)
BasicLit(value, pos) == [node |-> "BasicLit", Value |-> value, ValuePos |-> pos]
KeyValueExpr(k, colon, v) == [node |-> "KeyValueExpr", Key |-> k, Colon |-> colon, Value |-> v]
\* gtyp and gcut are not fields of ast.CompositeLit: they record, for a literal
\* built by zero, the type it was built for and whether the visited check
\* returned it (line 241); a literal of the input has gtyp = NoType.
CompositeLit(type, lbrace, elts, rbrace, gtyp, gcut) ==
    [node |-> "CompositeLit", Type |-> type, Lbrace |-> lbrace, Elts |-> elts,
     Rbrace |-> rbrace, gtyp |-> gtyp, gcut |-> gcut]
MapType(pos, k, v) == [node |-> "MapType", Map |-> pos, Key |-> k, Value |-> v]
ArrayType(pos, len, elt) == [node |-> "ArrayType", Lbrack |-> pos, Len |-> len, Elt |-> elt]
BinaryExpr(x, pos, y) == [node |-> "BinaryExpr", X |-> x, OpPos |-> pos, Y |-> y]
CallExpr(fun, lp, args, rp) ==
    [node |-> "CallExpr", Fun |-> fun, Lparen |-> lp, Args |-> args, Rparen |-> rp]
UnaryExpr(pos, x) == [node |-> "UnaryExpr", OpPos |-> pos, X |-> x]
StarExpr(pos, x) == [node |-> "StarExpr", Star |-> pos, X |-> x]
ParenExpr(pos, x, rp) == [node |-> "ParenExpr", Lparen |-> pos, X |-> x, Rparen |-> rp]
SelectorExpr(x, sel) == [node |-> "SelectorExpr", X |-> x, Sel |-> sel]
IndexExpr(x, lb, index, rb) ==
    [node |-> "IndexExpr", X |-> x, Lbrack |-> lb, Index |-> index, Rbrack |-> rb]
SliceExpr(x, lb, low, high, max, rb) ==
    [node |-> "SliceExpr", X |-> x, Lbrack |-> lb, Low |-> low, High |-> high,
     Max |-> max, Rbrack |-> rb]
Ellipsis(pos) == [node |-> "Ellipsis", Ellipsis |-> pos]
FuncLit(pos) == [node |-> "FuncLit", Func |-> pos]

\* what a call of zero or fixExprPos hands back: the expression and the filler
R(v, f) == [v |-> v, f |-> f]

----------------------------------------------------------------------------
(* filler.fixExprPos (lines 284-346).  The filler f is the record          *)
(* [pkg, pos, lines, existing, first] of the code, with two fields of the  *)
(* model: st ("ok", "panic" or "diverged") and colonRead (see Zero).       *)

RECURSIVE FixExprPos(_, _)
RECURSIVE FixExprList(_, _, _, _, _)

\* for _, e := range es { f.pos += bump; f.fixExprPos(e) }
FixExprList(es, i, bump, f, acc) ==
    IF i > Len(es) THEN R(acc, f)
    ELSE LET r == FixExprPos(es[i], [f EXCEPT !.pos = f.pos + bump])
         IN FixExprList(es, i + 1, bump, r.f, Append(acc, r.v))

FixExprPos(expr, f) ==
    CASE expr.node = "nil" -> R(expr, f)
      [] expr.node = "BasicLit" -> R([expr EXCEPT !.ValuePos = f.pos], f)
      [] expr.node = "BinaryExpr" ->
            LET x == FixExprPos(expr.X, f)
                y == FixExprPos(expr.Y, x.f)
            IN R([expr EXCEPT !.X = x.v, !.OpPos = x.f.pos, !.Y = y.v], y.f)
      [] expr.node = "CallExpr" ->
            LET fun == FixExprPos(expr.Fun, f)
                args == FixExprList(expr.Args, 1, 0, fun.f, << >>)
            IN R([expr EXCEPT !.Fun = fun.v, !.Lparen = fun.f.pos, !.Args = args.v,
                              !.Rparen = args.f.pos], args.f)
      [] expr.node = "CompositeLit" ->
            LET ty == FixExprPos(expr.Type, f)
                es == FixExprList(expr.Elts, 1, 1, ty.f, << >>)
                l == Len(expr.Elts)
                f2 == [es.f EXCEPT !.lines = IF l > 0 THEN es.f.lines + l + 2 ELSE es.f.lines,
                                   !.pos = es.f.pos + 1]
            IN R([expr EXCEPT !.Type = ty.v, !.Lbrace = ty.f.pos, !.Elts = es.v,
                              !.Rbrace = f2.pos], f2)
      [] expr.node = "Ellipsis" -> R([expr EXCEPT !.Ellipsis = f.pos], f)
      [] expr.node = "FuncLit" -> R([expr EXCEPT !.Func = f.pos], f)
      [] expr.node = "Ident" -> R([expr EXCEPT !.NamePos = f.pos], f)
      [] expr.node = "IndexExpr" ->
            LET x == FixExprPos(expr.X, f)
                ix == FixExprPos(expr.Index, x.f)
            IN R([expr EXCEPT !.X = x.v, !.Lbrack = x.f.pos, !.Index = ix.v,
                              !.Rbrack = ix.f.pos], ix.f)
      [] expr.node = "KeyValueExpr" ->
            LET k == FixExprPos(expr.Key, f)
                v == FixExprPos(expr.Value, k.f)
            IN R([expr EXCEPT !.Key = k.v, !.Value = v.v], v.f)
      [] expr.node = "ParenExpr" -> R([expr EXCEPT !.Lparen = f.pos], f)
      [] expr.node = "SelectorExpr" ->
            LET x == FixExprPos(expr.X, f)
            IN R([expr EXCEPT !.X = x.v, !.Sel = [expr.Sel EXCEPT !.NamePos = x.f.pos]], x.f)
      [] expr.node = "SliceExpr" ->
            LET x == FixExprPos(expr.X, f)
                lo == FixExprPos(expr.Low, x.f)
                hi == FixExprPos(expr.High, lo.f)
                mx == FixExprPos(expr.Max, hi.f)
            IN R([expr EXCEPT !.X = x.v, !.Lbrack = x.f.pos, !.Low = lo.v, !.High = hi.v,
                              !.Max = mx.v, !.Rbrack = mx.f.pos], mx.f)
      [] expr.node = "StarExpr" ->
            LET x == FixExprPos(expr.X, f)
            IN R([expr EXCEPT !.Star = f.pos, !.X = x.v], x.f)
      [] expr.node = "UnaryExpr" ->
            LET x == FixExprPos(expr.X, f)
            IN R([expr EXCEPT !.OpPos = f.pos, !.X = x.v], x.f)
      [] OTHER -> R(expr, f)

----------------------------------------------------------------------------
(* isImported (lines 348-350); n is a named type or NoType (nil).          *)

IsImported(p, n) == n.kind = "Named" /\ p # NamedDecl(n.name).pkg

\* the condition of line 258 under which a field without a reused entry is filled
\* (ok: the field's name is a key of f.existing)
FillField(ok, imported, field) == (~ok /\ ~imported) \/ field.exported

\* line 253 with the one-shot flag read the wrong way round
ReuseEntry_flagInverted(first, ok) == ~first /\ ok

\* the condition of line 253 under which the user's entry is reused
ReuseEntry(first, ok) == first /\ ok

----------------------------------------------------------------------------
(* filler.zero (lines 116-282).                                            *)

LitInfo(typ, name, hideType, isPointer) ==
    [typ |-> typ, name |-> name, hideType |-> hideType, isPointer |-> isPointer]

SignedKinds == {"Int", "Int8", "Int16", "Int32", "Int64"}
UnsignedKinds == {"Uint", "Uint8", "Uint16", "Uint32", "Uint64"}

\* case *types.Basic (lines 118-139)
ZeroBasic(k, pos) ==
    CASE k = "Bool" -> Ident("false", pos)
      [] k \in SignedKinds -> BasicLit("0", pos)
      [] k \in UnsignedKinds -> BasicLit("0", pos)
      [] k = "Uintptr" -> BasicLit("uintptr(0)", pos)
      [] k = "UnsafePointer" -> BasicLit("unsafe.Pointer(uintptr(0))", pos)
      [] k \in {"Float32", "Float64"} -> BasicLit("0.0", pos)
      [] k \in {"Complex64", "Complex128"} -> BasicLit("(0 + 0i)", pos)
      [] k = "String" -> BasicLit("\"\"", pos)
      [] OTHER -> NoExpr

\* zero without the visited check, as it was before the check was added
IsVisited_noGuard(t, visited) == FALSE

\* the visited check of lines 239-243
IsVisited(t, visited) == \E i \in 1..Len(visited) : visited[i] = t

\* line 200: what a closing array literal adds to f.lines
ArrayLines(n) == n + 2

\* line 192 with <= for <
ElemsDone_offByOne(i, n) == i > n

\* line 192: the loop over the elements ends
ElemsDone(i, n) == i >= n

RECURSIVE Zero(_, _, _, _)
RECURSIVE ZeroElems(_, _, _, _, _, _)
RECURSIVE ZeroFields(_, _, _, _, _, _, _, _, _)
RECURSIVE ElemAdded(_, _, _, _, _, _)
RECURSIVE EntryKept(_, _, _, _, _, _, _, _, _)
RECURSIVE FieldFilled(_, _, _, _, _, _, _, _, _, _)
RECURSIVE MapKeyDone(_, _, _, _, _, _, _, _)

\* lines 196-198: v is what zero returned for element i
ElemAdded(t, i, visited, elts, fuel, v) ==
    ZeroElems(t, i + 1, visited, v.f, IF v.v # NoExpr THEN Append(elts, v.v) ELSE elts, fuel)

\* the loop of lines 192-199
ZeroElems(t, i, visited, f, elts, fuel) ==
    IF ElemsDone(i, t.len) THEN R(elts, f)
    ELSE ElemAdded(t, i, visited, elts, fuel,
                   Zero(LitInfo(Underlying(t.elem),
                                IF t.elem.kind = "Named" THEN t.elem ELSE NoType, TRUE, FALSE),
                        visited, [f EXCEPT !.pos = f.pos + 1], fuel))

\* lines 254-257: kv is the user's entry after fixExprPos
EntryKept(fs, i, first, imported, visited, elts, lines, fuel, kv) ==
    ZeroFields(fs, i + 1, first, imported, visited, kv.f, Append(elts, kv.v), lines + 1, fuel)

\* lines 261-270: v is what zero returned for the field, pos the position of the key
FieldFilled(fs, i, first, imported, visited, elts, lines, fuel, pos, v) ==
    IF v.v # NoExpr
    THEN ZeroFields(fs, i + 1, first, imported, visited, v.f,
                    Append(elts, KeyValueExpr(Ident(fs[i].name, pos), 0, v.v)),
                    lines + 1, fuel)
    ELSE ZeroFields(fs, i + 1, first, imported, visited, [v.f EXCEPT !.pos = v.f.pos - 1],
                    elts, lines, fuel)

\* the loop of lines 251-271; lines is the local counter, fs the struct's fields
ZeroFields(fs, i, first, imported, visited, f, elts, lines, fuel) ==
    IF i > Len(fs) THEN [v |-> elts, f |-> f, lines |-> lines]
    ELSE IF ReuseEntry(first, fs[i].name \in DOMAIN f.existing)
    THEN EntryKept(fs, i, first, imported, visited, elts, lines, fuel,
                   FixExprPos(f.existing[fs[i].name], [f EXCEPT !.pos = f.pos + 1]))
    ELSE IF FillField(fs[i].name \in DOMAIN f.existing, imported, fs[i])
    THEN FieldFilled(fs, i, first, imported, visited, elts, lines, fuel, f.pos + 1,
                     Zero(LitInfo(fs[i].typ, NoType, FALSE, FALSE), visited,
                          [f EXCEPT !.pos = f.pos + 1], fuel))
    ELSE ZeroFields(fs, i + 1, first, imported, visited, f, elts, lines, fuel)

\* the type name of a struct literal (lines 222-237); NoExpr when it is hidden
StructTypeName(f, inf, t) ==
    IF ~inf.hideType /\ inf.name # NoType
    THEN LET ts == TypeString(f.pkg, inf.name)
         IN [ok |-> ts.ok,
             type |-> NewIdent(IF inf.isPointer THEN "&" \o ts.name ELSE ts.name)]
    ELSE IF ~inf.hideType /\ inf.name = NoType
    THEN LET ts == TypeString(f.pkg, t)
         IN [ok |-> ts.ok, type |-> NewIdent(ts.name)]
    ELSE [ok |-> TRUE, type |-> NoExpr]

\* lines 155-171: the map literal, k and v being what zero returned for the key
\* and the element; Colon: f.pos is read at a point the language leaves open
\* relative to the two calls of zero
MapLit(t, f, keyName, valName, k, v) ==
    R(CompositeLit(MapType(f.pos, NewIdent(keyName), NewIdent(valName)), f.pos,
                   << KeyValueExpr(k.v,
                                   CASE f.colonRead = "first" -> f.pos + 1
                                     [] f.colonRead = "lexical" -> k.f.pos
                                     [] OTHER -> v.f.pos,
                                   v.v) >>,
                   v.f.pos + 1, t, FALSE),
      [v.f EXCEPT !.pos = v.f.pos + 1, !.lines = v.f.lines + 2])

\* line 166: zero for the element, after zero for the key returned k
MapKeyDone(inf, t, visited, f, fuel, keyName, valName, k) ==
    MapLit(t, f, keyName, valName, k,
           Zero(LitInfo(t.elem, inf.name, TRUE, FALSE), visited, k.f, fuel - 1))

\* lines 145-171, the two type names being what typeString returned
ZeroMap(inf, t, visited, f, fuel, keyTypeName, valTypeName) ==
    IF ~keyTypeName.ok \/ ~valTypeName.ok THEN R(NoExpr, f)
    ELSE MapKeyDone(inf, t, visited, f, fuel, keyTypeName.name, valTypeName.name,
                    Zero(LitInfo(t.key, inf.name, TRUE, FALSE), visited,
                         [f EXCEPT !.pos = f.pos + 1], fuel - 1))

\* lines 183-203: the array literal, es being the elements the loop built
ArrayLit(inf, t, f, typeName, es) ==
    R(CompositeLit(IF ~inf.hideType
                   THEN ArrayType(f.pos, BasicLit(ToString(t.len), 0), NewIdent(typeName.name))
                   ELSE NoExpr,
                   f.pos, es.v, es.f.pos + 1, t, FALSE),
      [es.f EXCEPT !.lines = es.f.lines + ArrayLines(Len(es.v)), !.pos = es.f.pos + 1])

\* lines 179-203, typeName being what typeString returned
ZeroArray(inf, t, visited, f, fuel, typeName) ==
    IF ~inf.hideType /\ ~typeName.ok THEN R(NoExpr, f)
    ELSE ArrayLit(inf, t, f, typeName, ZeroElems(t, 0, visited, f, << >>, fuel - 1))

\* lines 272-277: the struct literal, fl being what the loop over the fields built
StructLit(t, f, type, fl) ==
    IF fl.lines > 0
    THEN R(CompositeLit(type, f.pos, fl.v, fl.f.pos + 1, t, FALSE),
           [fl.f EXCEPT !.lines = fl.f.lines + fl.lines + 2, !.pos = fl.f.pos + 1])
    ELSE R(CompositeLit(type, f.pos, fl.v, fl.f.pos, t, FALSE), fl.f)

\* lines 221-277, tn being the type name of lines 222-237
ZeroStruct(inf, t, visited, f, fuel, tn) ==
    IF ~tn.ok THEN R(NoExpr, f)
    ELSE IF IsVisited(t, visited)
    THEN R(CompositeLit(tn.type, f.pos, << >>, 0, t, TRUE), f)
    ELSE StructLit(t, f, tn.type,
                   ZeroFields(StructFields(t.id), 1, f.first, IsImported(f.pkg, inf.name),
                              Append(visited, t), [f EXCEPT !.first = FALSE], << >>, 0,
                              fuel - 1))

Zero(inf, visited, f, fuel) ==
    IF f.st # "ok" THEN R(NoExpr, f)
    ELSE IF fuel = 0 THEN R(NoExpr, [f EXCEPT !.st = "diverged"])
    ELSE
    CASE inf.typ.kind = "Basic" -> R(ZeroBasic(inf.typ.bkind, f.pos), f)
      [] inf.typ.kind \in {"Chan", "Interface", "Signature", "Slice"} ->
            R(Ident("nil", f.pos), f)
      [] inf.typ.kind = "Map" ->
            ZeroMap(inf, inf.typ, visited, f, fuel, TypeString(f.pkg, inf.typ.key),
                    TypeString(f.pkg, inf.typ.elem))
      [] inf.typ.kind = "Array" ->
            ZeroArray(inf, inf.typ, visited, f, fuel, TypeString(f.pkg, inf.typ.elem))
      [] inf.typ.kind = "Named" ->
            Zero([inf EXCEPT !.name = IF IsStruct(Underlying(inf.typ)) THEN inf.typ
                                      ELSE inf.name,
                             !.typ = Underlying(inf.typ)], visited, f, fuel - 1)
      [] inf.typ.kind = "Pointer" ->
            IF IsStruct(Underlying(inf.typ.elem))
            THEN Zero([inf EXCEPT !.typ = inf.typ.elem, !.isPointer = TRUE], visited, f,
                      fuel - 1)
            ELSE R(Ident("nil", f.pos), f)
      [] inf.typ.kind = "Struct" ->
            ZeroStruct(inf, inf.typ, visited, f, fuel, StructTypeName(f, inf, inf.typ))
      [] OTHER -> R(NoExpr, [f EXCEPT !.st = "panic"])

----------------------------------------------------------------------------
(* zeroValue (lines 102-114).                                              *)

NoRes == [expr |-> NoExpr, lines |-> 0, st |-> "none"]

\* lines 109-112: the last entry with a given key wins
ExistingOf(elts) ==
    [n \in {elts[i].Key.Name : i \in 1..Len(elts)} |->
        elts[CHOOSE i \in 1..Len(elts) :
                /\ elts[i].Key.Name = n
                /\ \A j \in 1..Len(elts) : elts[j].Key.Name = n => j <= i]]

\* e.(*ast.KeyValueExpr) of line 110 panics on an element that is not keyed
AllKeyed(elts) == \A i \in 1..Len(elts) : elts[i].node = "KeyValueExpr"

ZeroValue(p, l, inf, colonRead) ==
    IF ~AllKeyed(l.Elts) THEN [expr |-> NoExpr, lines |-> 0, st |-> "panic"]
    ELSE LET f == [pkg |-> p, pos |-> 1, lines |-> 0, first |-> TRUE,
                   existing |-> ExistingOf(l.Elts), st |-> "ok", colonRead |-> colonRead]
             r == Zero(inf, << >>, f, MaxDepth)
         IN [expr |-> r.v, lines |-> r.f.lines, st |-> r.f.st]

----------------------------------------------------------------------------
(* The inputs of zeroValue: a struct literal of the file, as the locators  *)
(* hand it over.                                                           *)

\* the named struct types a literal may have, and the anonymous ones
StructNames ==
    {"User", "Address", "Node", "Leaf", "Pair", "Inner", "Outer", "Ext", "ExtSub", "Wrap",
     "Maps", "MapNamed", "Arrs", "ArrNamed", "Kinds", "Refs", "Holder", "Broken", "Rec"}
AnonStructs == {"sAnon1", "sAnon2"}

\* the litInfo findCompositeLit and byLine build (lines 480-486, 519-526) for a
\* literal in package p; a literal of a foreign anonymous struct type has no type
\* of its own to write, it is an element of a literal of a foreign named type
LitInfos(p) ==
    {LitInfo(Underlying(NamedT(n)), NamedT(n), h, FALSE) : n \in StructNames, h \in BOOLEAN}
    \cup {LitInfo(StructT(a[1]), NoType, a[2], FALSE) :
            a \in {b \in AnonStructs \X BOOLEAN : StructPkg(b[1]) = p \/ b[2]}}

\* expressions a user may have written as the value of an entry, with the
\* positions they have in the user's file
UserExprs ==
    << BasicLit("1", 101),
       Ident("x", 102),
       BinaryExpr(Ident("x", 103), 105, BasicLit("1", 107)),
       CallExpr(Ident("f", 110), 111, << Ident("x", 112), BasicLit("2", 115) >>, 116),
       CompositeLit(Ident("T", 120), 121, << >>, 122, NoType, FALSE),
       UnaryExpr(130, CompositeLit(Ident("T", 131), 132,
                    << KeyValueExpr(Ident("name", 133), 137, BasicLit("3", 139)),
                       KeyValueExpr(Ident("N", 142), 143,
                                    SelectorExpr(Ident("p", 145), Ident("V", 147))) >>,
                    148, NoType, FALSE)),
       IndexExpr(StarExpr(150, Ident("a", 151)), 152, ParenExpr(153, Ident("i", 154), 155),
                 156) >>

\* a field a literal in package p may mention: the compiler rejects the others
Accessible(p, id, field) == field.exported \/ StructPkg(id) = p

UserExpr(r, i) == UserExprs[((r + i) % Len(UserExprs)) + 1]

RECURSIVE KeyedElts(_, _, _, _)
\* the entries `Name: value` for the fields of fs whose index is in ks, in field order
KeyedElts(fs, ks, r, i) ==
    IF i > Len(fs) THEN << >>
    ELSE IF i \in ks
         THEN << KeyValueExpr(Ident(fs[i].name, 90 + i), 0, UserExpr(r, i)) >>
              \o KeyedElts(fs, ks, r, i + 1)
         ELSE KeyedElts(fs, ks, r, i + 1)

\* the literals of a struct type a well-typed file of package p may hold: keyed
\* entries for some accessible fields, or one positional value per field
LitsOf(p, id) ==
    LET fs == StructFields(id)
        acc == {i \in 1..Len(fs) : Accessible(p, id, fs[i])}
        keyed == {CompositeLit(NoExpr, 80, KeyedElts(fs, ks, r, 1), 160, NoType, FALSE) :
                    ks \in {k \in SUBSET acc : Cardinality(k) <= MaxExisting},
                    r \in 0..(Len(UserExprs) - 1)}
        positional == IF acc = 1..Len(fs) /\ Len(fs) > 0
                      THEN {CompositeLit(NoExpr, 80, [i \in 1..Len(fs) |-> UserExpr(r, i)],
                                         160, NoType, FALSE) : r \in 0..1}
                      ELSE {}
    IN keyed \cup positional

ColonReads == {"first", "lexical", "last"}

\* the struct has a field of a map type: the only place Colon is set
HasMapField(id) ==
    \E i \in 1..Len(StructFields(id)) : Underlying(StructFields(id)[i].typ).kind = "Map"

----------------------------------------------------------------------------
(* The synthesizer on its own: zeroValue applied to every input.           *)

Idle == [kind |-> "idle"]

InitZero ==
    /\ pc = "call"
    /\ pkg \in Pkgs
    /\ info \in LitInfos(pkg)
    /\ lit \in LitsOf(pkg, info.typ.id)
    /\ env \in [colonRead : IF HasMapField(info.typ.id) THEN ColonReads ELSE {"lexical"}]
    /\ res = NoRes
    /\ file = Idle
    /\ offset = 0
    /\ line = 0
    /\ err = "nil"
    /\ ran = << >>
    /\ emitted = << >>
    /\ exit = "running"

ZeroValueCall ==
    /\ pc = "call"
    /\ pc' = "returned"
    /\ res' = ZeroValue(pkg, lit, info, env.colonRead)
    /\ UNCHANGED <<pkg, lit, info, file, offset, line, env, err, ran, emitted, exit>>

NextZero == ZeroValueCall

SpecZero == InitZero /\ [][NextZero]_vars

----------------------------------------------------------------------------
(* The file main works on.  Only its composite literals matter to the two  *)
(* locators: file.lits lists them in the order ast.Inspect visits them     *)
(* (depth first, source order), file.breaks says before which of them the  *)
(* source has a line break.  Each literal has                              *)
(*   typ    -- info.Types[lit].Type                                        *)
(*   parent -- the literal it is nested in (0: none)                       *)
(*   via    -- the node right above it: "elt" the parent literal itself,   *)
(*             "kv" a KeyValueExpr, "expr" another expression (&T{...},    *)
(*             append(xs, T{...})), "stmt" a node that is no expression    *)
(*   ptyp   -- info.Types of that expression ("expr" only)                 *)
(*   keyed  -- a struct literal's elements are Key: Value pairs            *)

BoxT == NamedT("Box")

LitNode(typ, parent, via, ptyp, keyed) ==
    [typ |-> typ, parent |-> parent, via |-> via, ptyp |-> ptyp, keyed |-> keyed]

\* the outermost literals of the file, each with the literals nested in it
\* (parent counts inside the item):
\*   Box{}   Box{a, b, c}   []string{}   []Box{ {} }   Box{Tags: []string{}}
\*   map[string]Box{"k": {}}   append(xs, Box{})   Box{In: &Box{}}   []Box{ {}, {} }
Items ==
    { << LitNode(BoxT, 0, "stmt", NoType, TRUE) >>,
      << LitNode(BoxT, 0, "stmt", NoType, FALSE) >>,
      << LitNode(SliceT(StringT), 0, "stmt", NoType, TRUE) >>,
      << LitNode(SliceT(BoxT), 0, "stmt", NoType, TRUE),
         LitNode(BoxT, 1, "elt", NoType, TRUE) >>,
      << LitNode(BoxT, 0, "stmt", NoType, TRUE),
         LitNode(SliceT(StringT), 1, "kv", NoType, TRUE) >>,
      << LitNode(MapT(StringT, BoxT), 0, "stmt", NoType, TRUE),
         LitNode(BoxT, 1, "kv", NoType, TRUE) >>,
      << LitNode(BoxT, 0, "expr", SliceT(BoxT), TRUE) >>,
      << LitNode(BoxT, 0, "stmt", NoType, TRUE),
         LitNode(BoxT, 1, "expr", PointerT(BoxT), TRUE) >>,
      << LitNode(SliceT(BoxT), 0, "stmt", NoType, TRUE),
         LitNode(BoxT, 1, "elt", NoType, TRUE),
         LitNode(BoxT, 1, "elt", NoType, TRUE) >> }

\* item it placed after the literals f
Place(f, it) ==
    f \o [j \in 1..Len(it) |->
            [it[j] EXCEPT !.parent = IF it[j].parent = 0 THEN 0 ELSE it[j].parent + Len(f)]]

RECURSIVE LitLists(_)
\* the literal lists of n items
LitLists(n) ==
    IF n = 0 THEN {<< >>}
    ELSE {Place(f, it) : f \in LitLists(n - 1), it \in Items}

\* the layouts: everything on one line, one line per item, one line per literal
Layouts(f) ==
    {{}, {i \in 1..Len(f) : i > 1 /\ f[i].parent = 0}, {i \in 1..Len(f) : i > 1}}

Files ==
    UNION {{[lits |-> f, breaks |-> b] : b \in Layouts(f)} :
              f \in UNION {LitLists(n) : n \in 1..MaxItems}}

RECURSIVE Chain(_, _)
\* literal i and the literals it is nested in
Chain(f, i) == IF i = 0 THEN {} ELSE {i} \cup Chain(f, f[i].parent)

\* byte offsets: literal i starts at Unit * i, and ends after its last nested literal
Unit == 10
LastIn(f, i) == CHOOSE j \in i..Len(f) :
                    /\ i \in Chain(f, j)
                    /\ \A k \in i..Len(f) : i \in Chain(f, k) => k <= j
Depth(f, i) == Cardinality(Chain(f, i)) - 1
\* lprog.Fset.Position(lit.Pos()).Offset, lprog.Fset.Position(lit.End()).Offset
StartOff(f, i) == Unit * i
EndOff(f, i) == Unit * LastIn(f, i) + (Unit - 1) - Depth(f, i)
\* file.Size()
FileSize(fl) == Unit * (Len(fl.lits) + 1)
\* lprog.Fset.Position(p).Line: the line breaks are just before the literals of breaks
LineOf(fl, off) == 1 + Cardinality({b \in fl.breaks : Unit * b - 1 < off})
StartLine(fl, i) == LineOf(fl, StartOff(fl.lits, i))
EndLine(fl, i) == LineOf(fl, EndOff(fl.lits, i))

RECURSIVE KidSeq(_, _, _)
\* the literals nested directly in literal p, in source order
KidSeq(f, p, j) ==
    IF j > Len(f) THEN << >>
    ELSE (IF f[j].parent = p THEN << j >> ELSE << >>) \o KidSeq(f, p, j + 1)

\* the field of Box a literal nested in a Box literal is the value of
FieldOf(nd) ==
    CASE nd.typ = SliceT(StringT) -> 1
      [] nd.typ = SliceT(BoxT) -> 2
      [] OTHER -> 3

\* the type as the source writes it in front of the brace
TypeExpr(t, pos) ==
    CASE t.kind = "Named" -> Ident(t.name, pos)
      [] t.kind = "Slice" -> ArrayType(pos, NoExpr, Ident(IF t.elem = StringT THEN "string"
                                                          ELSE t.elem.name, pos + 2))
      [] t.kind = "Map" -> MapType(pos, Ident("string", pos + 1), Ident(t.elem.name, pos + 2))
      [] OTHER -> NoExpr

RECURSIVE LitAst(_, _)
\* the *ast.CompositeLit of literal i as the parser built it
LitAst(f, i) ==
    LET kids == KidSeq(f, i, i + 1)
        value(c) == IF f[c].via = "expr" THEN UnaryExpr(StartOff(f, c) - 1, LitAst(f, c))
                    ELSE LitAst(f, c)
        kidOf(k) == {c \in 1..Len(f) : f[c].parent = i /\ FieldOf(f[c]) = k}
        elts ==
            CASE f[i].typ = BoxT /\ f[i].keyed ->
                    [n \in 1..Len(kids) |->
                        KeyValueExpr(Ident(StructFields("sBox")[FieldOf(f[kids[n]])].name,
                                           StartOff(f, kids[n]) - 4),
                                     StartOff(f, kids[n]) - 2, value(kids[n]))]
              [] f[i].typ = BoxT ->
                    [k \in 1..Len(StructFields("sBox")) |->
                        IF kidOf(k) = {} THEN Ident("v", StartOff(f, i) + 3 + k)
                        ELSE value(CHOOSE c \in kidOf(k) : TRUE)]
              [] f[i].typ.kind = "Map" ->
                    [n \in 1..Len(kids) |->
                        KeyValueExpr(BasicLit("\"k\"", StartOff(f, kids[n]) - 4),
                                     StartOff(f, kids[n]) - 2, value(kids[n]))]
              [] OTHER -> [n \in 1..Len(kids) |-> value(kids[n])]
    IN CompositeLit(IF f[i].via = "elt" \/ (f[i].via = "kv" /\ f[f[i].parent].typ.kind = "Map")
                    THEN NoExpr ELSE TypeExpr(f[i].typ, StartOff(f, i)),
                    StartOff(f, i) + 3, elts, EndOff(f, i) - 1, NoType, FALSE)

----------------------------------------------------------------------------
(* hideType, findPos, findCompositeLit, prepareOutput, byOffset            *)
(* (lines 438-492, 555-590).                                               *)

errNotFound == "no struct literal found at selection"
errFileSize == "file size is smaller than given offset"
errFormat == "format.Node: unsupported node type"
errEncode == "json: write error"
errLoad == "load error"

\* lines 555-566; a nil type takes the default branch
HideType(t) == t.kind \in {"Array", "Map", "Slice"}

\* lines 460-473, for the file the flags name
FindPos(fl, off) ==
    IF off > FileSize(fl) THEN [err |-> errFileSize, pos |-> 0]
    ELSE [err |-> "nil", pos |-> off]

\* the composite literals on the path astutil.PathEnclosingInterval(f, pos, pos)
\* returns, which lists the nodes around pos, innermost first
Enclosing(f, pos) == {i \in 1..Len(f) : StartOff(f, i) <= pos /\ pos < EndOff(f, i)}

\* info.Types[path[i+1]].Type: a KeyValueExpr has no entry in info.Types, a
\* node that is no ast.Expr is not looked up
ParentExprType(f, i) ==
    CASE f[i].via = "elt" -> f[f[i].parent].typ
      [] f[i].via = "expr" -> f[i].ptyp
      [] OTHER -> NoType

\* lines 480-481 and 519-520
NameOf(t) == IF t.kind = "Named" THEN t ELSE NoType

\* lines 475-492: the first composite literal of the path decides
FindCompositeLit(f, pos) ==
    LET enc == Enclosing(f, pos)
        i == CHOOSE j \in enc : \A k \in enc : k <= j
    IN IF enc = {} THEN [err |-> errNotFound, lit |-> 0, info |-> NoType]
       ELSE IF ~IsStruct(Underlying(f[i].typ))
            THEN [err |-> errNotFound, lit |-> 0, info |-> NoType]
            ELSE [err |-> "nil", lit |-> i,
                  info |-> LitInfo(Underlying(f[i].typ), NameOf(f[i].typ),
                                   f[i].via # "stmt" /\ HideType(ParentExprType(f, i)),
                                   FALSE)]

\* lines 574-590: Code is the text format.Node prints for n, kept as the tree
\* it is printed from, with the number of lines of the fresh token.File; lit
\* and hide are not fields of output: the literal the record replaces and the
\* hideType it was built with
PrepareOutput(n, lines, start, end, i, hide) ==
    IF n = NoExpr THEN [err |-> errFormat, out |-> << >>]
    ELSE [err |-> "nil",
          out |-> [Start |-> start, End |-> end, Code |-> [tree |-> n, lines |-> lines],
                   lit |-> i, hide |-> hide]]

\* json.NewEncoder(os.Stdout).Encode(outs)
Encode(outs, writeOk) == IF writeOk THEN "nil" ELSE errEncode

\* lines 452-457: the record for the literal found, written to stdout; st is
\* "panic" when zeroValue panicked
OffsetOut(fl, fc, z, writeOk) ==
    LET po == PrepareOutput(z.expr, z.lines, StartOff(fl.lits, fc.lit),
                            EndOff(fl.lits, fc.lit), fc.lit, fc.info.hideType)
    IN CASE z.st # "ok" -> [err |-> "nil", outs |-> << >>, st |-> z.st]
         [] po.err # "nil" -> [err |-> po.err, outs |-> << >>, st |-> "ok"]
         [] OTHER -> [err |-> Encode(<< po.out >>, writeOk),
                      outs |-> IF writeOk THEN << po.out >> ELSE << >>, st |-> "ok"]

\* lines 444-457, fc being what findCompositeLit returned
OffsetLit(fl, fc, writeOk) ==
    IF fc.err # "nil" THEN [err |-> fc.err, outs |-> << >>, st |-> "ok"]
    ELSE OffsetOut(fl, fc, ZeroValue(ThisPkg, LitAst(fl.lits, fc.lit), fc.info, "lexical"),
                   writeOk)

\* lines 438-458
ByOffset(fl, off, writeOk) ==
    LET fp == FindPos(fl, off)
    IN IF fp.err # "nil" THEN [err |-> fp.err, outs |-> << >>, st |-> "ok"]
       ELSE OffsetLit(fl, FindCompositeLit(fl.lits, fp.pos), writeOk)

----------------------------------------------------------------------------
(* byLine (lines 494-553).                                                 *)

\* lines 514: the literal covers the line
Covers(fl, i, ln) == StartLine(fl, i) <= ln /\ ln <= EndLine(fl, i)

RECURSIVE Inspect(_, _, _, _)
RECURSIVE InspectStruct(_, _, _, _, _, _)
\* lines 507-525: the callback on literal i and on the literals after it; v is
\* [outs, prev, err, skip, st]: the three variables the callback captures, the
\* last literal of the subtree ast.Inspect does not enter after the callback
\* returned false, and "panic" once zeroValue panicked
Inspect(fl, ln, i, v) ==
    IF i > Len(fl.lits) \/ v.st # "ok" THEN v
    ELSE IF i <= v.skip \/ ~Covers(fl, i, ln) THEN Inspect(fl, ln, i + 1, v)
    ELSE IF ~IsStruct(Underlying(fl.lits[i].typ))
         THEN Inspect(fl, ln, i + 1,
                      [v EXCEPT !.prev = Underlying(fl.lits[i].typ), !.err = errNotFound])
         ELSE InspectStruct(fl, ln, i, v, HideType(v.prev),
                            ZeroValue(ThisPkg, LitAst(fl.lits, i),
                                      LitInfo(Underlying(fl.lits[i].typ),
                                              NameOf(fl.lits[i].typ), HideType(v.prev), FALSE),
                                      "lexical"))

\* lines 532, 536: the callback returns false on a struct literal, so
\* ast.Inspect enters none of the literals nested in it
SkipTo_descends(f, i) == i

SkipTo(f, i) == LastIn(f, i)

\* lines 528-538: the callback on struct literal i, z being what zeroValue returned
InspectStruct(fl, ln, i, v, hide, z) ==
    LET po == PrepareOutput(z.expr, z.lines, StartOff(fl.lits, i), EndOff(fl.lits, i), i, hide)
    IN IF z.st # "ok" THEN [v EXCEPT !.st = z.st]
       ELSE Inspect(fl, ln, i + 1,
                    IF po.err # "nil"
                    THEN [v EXCEPT !.err = po.err, !.skip = SkipTo(fl.lits, i)]
                    ELSE [v EXCEPT !.err = "nil", !.skip = SkipTo(fl.lits, i),
                                   !.outs = Append(v.outs, po.out)])

\* line 547: the index the swap loop starts at
ReverseStart_offByOne(n) == n \div 2

ReverseStart(n) == n \div 2 - 1

RECURSIVE SwapLoop(_, _)
\* lines 547-550: for i := len(outs)/2 - 1; i >= 0; i-- { swap outs[i], outs[opp] },
\* the indices of the code being one less than those of the sequence
SwapLoop(outs, i) ==
    IF i < 0 THEN outs
    ELSE LET opp == Len(outs) - 1 - i
         IN SwapLoop([outs EXCEPT ![i + 1] = outs[opp + 1], ![opp + 1] = outs[i + 1]], i - 1)

\* lines 540-552, v being the variables as ast.Inspect left them
LineOuts(v, writeOk) ==
    CASE v.st # "ok" -> [err |-> "nil", outs |-> << >>, st |-> v.st]
      [] v.err # "nil" -> [err |-> v.err, outs |-> << >>, st |-> "ok"]
      [] Len(v.outs) = 0 -> [err |-> errNotFound, outs |-> << >>, st |-> "ok"]
      [] OTHER -> [err |-> Encode(v.outs, writeOk),
                   outs |-> IF writeOk THEN SwapLoop(v.outs, ReverseStart(Len(v.outs)))
                            ELSE << >>,
                   st |-> "ok"]

ByLine(fl, ln, writeOk) ==
    LineOuts(Inspect(fl, ln, 1, [outs |-> << >>, prev |-> NoType, err |-> "nil",
                                 skip |-> 0, st |-> "ok"]),
             writeOk)

----------------------------------------------------------------------------
(* main (lines 354-405).                                                   *)

\* the flag values tried: none, before the first literal, inside each literal,
\* past the end of the file; none, the line of each literal, a line past the last
Offsets(fl) ==
    {0, Unit \div 2, FileSize(fl) + Unit}
    \cup {StartOff(fl.lits, i) + 4 : i \in 1..Len(fl.lits)}
Lines(fl) ==
    {0, Cardinality(fl.breaks) + 2} \cup {StartLine(fl, i) : i \in 1..Len(fl.lits)}

Init ==
    /\ pc = "main"
    /\ pkg = ThisPkg
    /\ file \in Files
    /\ offset \in Offsets(file)
    /\ line \in Lines(file)
    /\ env = [colonRead |-> "lexical", loadOk |-> TRUE, writeOk |-> TRUE]
    /\ lit = NoExpr
    /\ info = NoType
    /\ res = NoRes
    /\ err = "nil"
    /\ ran = << >>
    /\ emitted = << >>
    /\ exit = "running"

\* line 387: the one error of the offset search after which the line is tried
FallsThrough_anyError(e) == e # "nil"

FallsThrough(e) == e = errNotFound

\* what search name leaves behind when it returned r; a panic unwinds main
AfterSearch(name, r) ==
    /\ ran' = Append(ran, [search |-> name, err |-> r.err, st |-> r.st])
    /\ emitted' = IF r.st = "ok" /\ r.err = "nil" THEN Append(emitted, r.outs) ELSE emitted
    /\ err' = IF r.st = "ok" THEN r.err ELSE err
    /\ env' = [env EXCEPT !.writeOk = (r.err # errEncode)]
    /\ pc' = IF r.st = "ok" /\ name = "offset" /\ FallsThrough(r.err) THEN "line" ELSE "done"
    /\ exit' = CASE r.st # "ok" -> "panic"
                 [] r.err = "nil" -> "ok"
                 [] name = "offset" /\ FallsThrough(r.err) -> exit
                 [] OTHER -> "fatal"

\* lines 366-380: the usage check, absPath and load
MainStart ==
    /\ pc = "main"
    /\ \E loadOk \in BOOLEAN :
          /\ env' = [env EXCEPT !.loadOk = (offset = 0 /\ line = 0) \/ loadOk]
          /\ IF offset = 0 /\ line = 0
             THEN pc' = "done" /\ exit' = "usage" /\ err' = err
             ELSE IF ~loadOk
                  THEN pc' = "done" /\ exit' = "fatal" /\ err' = errLoad
                  ELSE pc' = "offset" /\ exit' = exit /\ err' = err
    /\ UNCHANGED <<pkg, lit, info, res, file, offset, line, ran, emitted>>

\* lines 382-392
MainOffset ==
    /\ pc = "offset"
    /\ IF offset > 0
       THEN \E writeOk \in BOOLEAN :
               AfterSearch("offset", ByOffset(file, offset, writeOk))
       ELSE pc' = "line" /\ UNCHANGED <<ran, emitted, err, env, exit>>
    /\ UNCHANGED <<pkg, lit, info, res, file, offset, line>>

\* lines 394-402
MainLine ==
    /\ pc = "line"
    /\ IF line > 0
       THEN \E writeOk \in BOOLEAN :
               AfterSearch("line", ByLine(file, line, writeOk))
       ELSE pc' = "notfound" /\ UNCHANGED <<ran, emitted, err, env, exit>>
    /\ UNCHANGED <<pkg, lit, info, res, file, offset, line>>

\* line 404
MainNotFound ==
    /\ pc = "notfound"
    /\ pc' = "done"
    /\ exit' = "fatal"
    /\ err' = errNotFound
    /\ UNCHANGED <<pkg, lit, info, res, file, offset, line, env, ran, emitted>>

Next == MainStart \/ MainOffset \/ MainLine \/ MainNotFound

Spec == Init /\ [][Next]_vars

----------------------------------------------------------------------------
(* Reading a result of zeroValue.                                          *)

Returned == pc = "returned" /\ res.st = "ok" /\ res.expr # NoExpr

RECURSIVE BuiltLits(_, _, _)
\* the literals zero built inside e, each with the struct types above it on its
\* descent path (anc) and the kind of the literal it is directly an entry of
\* (parent, "top" for the result itself); entries reused from the input are
\* not descended into
BuiltLits(e, anc, parent) ==
    CASE e.node = "CompositeLit" /\ e.gtyp # NoType ->
            LET below == IF e.gtyp.kind = "Struct" THEN anc \cup {e.gtyp} ELSE anc
            IN {[lit |-> e, anc |-> anc, parent |-> parent]}
               \cup UNION {BuiltLits(e.Elts[i], below, e.gtyp.kind) : i \in 1..Len(e.Elts)}
      [] e.node = "KeyValueExpr" ->
            BuiltLits(e.Key, anc, parent) \cup BuiltLits(e.Value, anc, parent)
      [] OTHER -> {}

AllBuilt == BuiltLits(res.expr, {}, "top")

\* the struct literals zero built in the result
BuiltStructs == {n \in AllBuilt : n.lit.gtyp.kind = "Struct"}
BuiltArrays == {n \in AllBuilt : n.lit.gtyp.kind = "Array"}
BuiltMaps == {n \in AllBuilt : n.lit.gtyp.kind = "Map"}

RECURSIVE StripPos(_)
\* the expression with every position marker cleared: what is left is its shape
StripPos(e) ==
    CASE e.node = "BasicLit" -> [e EXCEPT !.ValuePos = 0]
      [] e.node = "Ident" -> [e EXCEPT !.NamePos = 0]
      [] e.node = "BinaryExpr" ->
            [e EXCEPT !.X = StripPos(e.X), !.OpPos = 0, !.Y = StripPos(e.Y)]
      [] e.node = "CallExpr" ->
            [e EXCEPT !.Fun = StripPos(e.Fun), !.Lparen = 0, !.Rparen = 0,
                      !.Args = [i \in 1..Len(e.Args) |-> StripPos(e.Args[i])]]
      [] e.node = "CompositeLit" ->
            [e EXCEPT !.Type = StripPos(e.Type), !.Lbrace = 0, !.Rbrace = 0,
                      !.Elts = [i \in 1..Len(e.Elts) |-> StripPos(e.Elts[i])]]
      [] e.node = "KeyValueExpr" ->
            [e EXCEPT !.Key = StripPos(e.Key), !.Colon = 0, !.Value = StripPos(e.Value)]
      [] e.node = "UnaryExpr" -> [e EXCEPT !.OpPos = 0, !.X = StripPos(e.X)]
      [] e.node = "StarExpr" -> [e EXCEPT !.Star = 0, !.X = StripPos(e.X)]
      [] e.node = "ParenExpr" -> [e EXCEPT !.Lparen = 0, !.Rparen = 0, !.X = StripPos(e.X)]
      [] e.node = "SelectorExpr" -> [e EXCEPT !.X = StripPos(e.X), !.Sel = StripPos(e.Sel)]
      [] e.node = "IndexExpr" ->
            [e EXCEPT !.X = StripPos(e.X), !.Lbrack = 0, !.Index = StripPos(e.Index),
                      !.Rbrack = 0]
      [] e.node = "SliceExpr" ->
            [e EXCEPT !.X = StripPos(e.X), !.Lbrack = 0, !.Low = StripPos(e.Low),
                      !.High = StripPos(e.High), !.Max = StripPos(e.Max), !.Rbrack = 0]
      [] e.node = "Ellipsis" -> [e EXCEPT !.Ellipsis = 0]
      [] e.node = "FuncLit" -> [e EXCEPT !.Func = 0]
      [] e.node = "MapType" -> [e EXCEPT !.Map = 0]
      [] e.node = "ArrayType" -> [e EXCEPT !.Lbrack = 0]
      [] OTHER -> e

\* the keys of a struct literal's entries, in order
KeysOf(l) == [i \in 1..Len(l.Elts) |-> l.Elts[i].Key.Name]

\* how many entries of struct literal l have the key n
EntryCount(l, n) == Cardinality({i \in 1..Len(l.Elts) : l.Elts[i].Key.Name = n})

FieldNames(id) == {StructFields(id)[i].name : i \in 1..Len(StructFields(id))}

RECURSIVE Renderable(_, _, _)
RECURSIVE RenderableFields(_, _, _)
\* every type zero has to spell or fill below the fields of struct id can be
\* spelled in package p and is a valid type (seen: the named and struct types
\* already looked at)
RenderableFields(p, id, seen) ==
    \/ id \in seen
    \/ \A i \in 1..Len(StructFields(id)) :
          Renderable(p, StructFields(id)[i].typ, seen \cup {id})

\* the same for a type t a field, an element or a key has
Renderable(p, t, seen) ==
    CASE t.kind = "Basic" -> t.bkind # "Invalid"
      [] t.kind = "Named" ->
            /\ TypeString(p, t).ok
            /\ \/ t.name \in seen
               \/ IF IsStruct(Underlying(t))
                  THEN RenderableFields(p, Underlying(t).id, seen \cup {t.name})
                  ELSE Renderable(p, Underlying(t), seen \cup {t.name})
      [] t.kind = "Pointer" -> TypeString(p, t).ok /\ Renderable(p, t.elem, seen)
      [] t.kind = "Array" -> TypeString(p, t).ok /\ Renderable(p, t.elem, seen)
      [] t.kind = "Map" ->
            /\ TypeString(p, t).ok
            /\ Renderable(p, t.key, seen)
            /\ Renderable(p, t.elem, seen)
      [] t.kind = "Struct" -> TypeString(p, t).ok /\ RenderableFields(p, t.id, seen)
      [] OTHER -> TRUE

\* the field is declared in the package of the literal being filled, or exported
Included(p, id, field) == StructPkg(id) = p \/ field.exported

----------------------------------------------------------------------------
\* C1 (field inclusion exactness): when every field type is renderable, every
\* struct literal that zero emits with its fields expanded, at the outermost and
\* at every nested level, has exactly one entry for each field that is declared
\* in the literal's package or exported, and no entry for any other field,
\* whatever entries the outermost literal already had.
C1_FieldInclusionExact ==
    (Returned /\ RenderableFields(pkg, info.typ.id, {})) =>
        \A n \in BuiltStructs :
            ~n.lit.gcut =>
                LET fs == StructFields(n.lit.gtyp.id)
                IN /\ \A i \in 1..Len(fs) :
                        EntryCount(n.lit, fs[i].name)
                            = IF Included(pkg, n.lit.gtyp.id, fs[i]) THEN 1 ELSE 0
                   /\ \A i \in 1..Len(n.lit.Elts) :
                        n.lit.Elts[i].Key.Name \in FieldNames(n.lit.gtyp.id)

----------------------------------------------------------------------------
\* the index of the field named n among the fields of struct id
FieldIndex(id, n) == CHOOSE i \in 1..Len(StructFields(id)) : StructFields(id)[i].name = n

ExistingKeys == {lit.Elts[i].Key.Name : i \in 1..Len(lit.Elts)}

\* C2 (user-entry preservation): when the outermost literal has a keyed entry for
\* a field, the result has exactly one entry for that field, it is the user's
\* entry with nothing but its position markers rewritten, and the entries of the
\* result stand in the declaration order of their fields.
C2_UserEntryPreserved ==
    (Returned /\ AllKeyed(lit.Elts)) =>
        /\ \A i \in 1..Len(lit.Elts) :
              /\ EntryCount(res.expr, lit.Elts[i].Key.Name) = 1
              /\ \E j \in 1..Len(res.expr.Elts) :
                    /\ res.expr.Elts[j].Key.Name = lit.Elts[i].Key.Name
                    /\ StripPos(res.expr.Elts[j]) = StripPos(lit.Elts[i])
        /\ \A j, k \in 1..Len(res.expr.Elts) :
              j < k => FieldIndex(info.typ.id, res.expr.Elts[j].Key.Name)
                         < FieldIndex(info.typ.id, res.expr.Elts[k].Key.Name)

\* a result that keeps two user entries, one of them a nested literal with
\* entries of its own, next to entries zero synthesized
C2_Witness ==
    /\ Returned
    /\ Len(lit.Elts) = 2
    /\ \E i \in 1..2 : /\ lit.Elts[i].Value.node = "UnaryExpr"
                       /\ Len(lit.Elts[i].Value.X.Elts) = 2
    /\ Len(res.expr.Elts) > 2
    /\ \E j \in 1..Len(res.expr.Elts) :
          /\ res.expr.Elts[j].Key.Name \in ExistingKeys
          /\ j > 1
          /\ res.expr.Elts[j - 1].Key.Name \notin ExistingKeys

----------------------------------------------------------------------------
\* the struct has a field that is a pointer back to the struct itself
HasSelfPointer(t) ==
    \E i \in 1..Len(StructFields(t.id)) :
        LET ft == StructFields(t.id)[i].typ
        IN ft.kind = "Pointer" /\ Underlying(ft.elem) = t

\* the fields of struct literal l were filled: each exported field whose type
\* can be rendered has its entry
Expanded(l) ==
    \A i \in 1..Len(StructFields(l.gtyp.id)) :
        LET field == StructFields(l.gtyp.id)[i]
        IN (field.exported /\ Renderable(pkg, field.typ, {})) => EntryCount(l, field.name) = 1

\* C3 (self-reference guard): a struct literal zero emits has no entries when its
\* struct type is among its ancestors on the descent path, and has its fields
\* expanded otherwise (so the same struct type below two sibling fields is
\* expanded in both); a struct with a pointer field back to itself yields a
\* finite result.
C3_SelfReferenceGuard ==
    /\ (pc = "returned" /\ AllKeyed(lit.Elts) /\ HasSelfPointer(info.typ)) => res.st = "ok"
    /\ Returned =>
          \A n \in BuiltStructs :
              IF n.lit.gtyp \in n.anc
              THEN n.lit.Elts = << >>
              ELSE Expanded(n.lit)

\* Pair: the pointer back to Pair is cut to an empty literal, the two sibling
\* fields of type Leaf are both expanded
C3_Witness ==
    /\ Returned
    /\ \E n \in BuiltStructs : n.lit.gtyp \in n.anc /\ n.lit.Elts = << >>
    /\ \E n, m \in BuiltStructs :
          /\ n.lit # m.lit
          /\ n.lit.gtyp = m.lit.gtyp
          /\ n.anc = m.anc
          /\ n.lit.Elts # << >>
          /\ m.lit.Elts # << >>

----------------------------------------------------------------------------
RECURSIVE Valid(_, _)
\* no invalid type below t: the file type-checks as far as t is concerned
Valid(t, seen) ==
    CASE t.kind = "Basic" -> t.bkind # "Invalid"
      [] t.kind = "Named" -> t.name \in seen \/ Valid(Underlying(t), seen \cup {t.name})
      [] t.kind \in {"Pointer", "Array", "Slice", "Chan"} -> Valid(t.elem, seen)
      [] t.kind = "Map" -> Valid(t.key, seen) /\ Valid(t.elem, seen)
      [] t.kind = "Struct" ->
            \/ t.id \in seen
            \/ \A i \in 1..Len(StructFields(t.id)) :
                  Valid(StructFields(t.id)[i].typ, seen \cup {t.id})
      [] OTHER -> TRUE

\* C4 (synthesis never fails outright): for every well-typed struct literal,
\* whatever the form of its elements, keyed or not, zeroValue returns without
\* panicking.
C4_NeverPanics ==
    (pc = "returned" /\ Valid(info.typ, {})) => res.st # "panic"

----------------------------------------------------------------------------
(* The control flow of main and the two locators (specification Spec).     *)

\* the run got past the usage check and load
Loaded == pc \in {"offset", "line", "notfound"} \/ (pc = "done" /\ exit # "usage" /\ env.loadOk)

\* search i returned (it did not panic)
ReturnedFrom(i) == ran[i].st = "ok"

\* C5 (offset-then-line fallback): with a positive offset the offset search
\* runs first; the line search runs only when no offset search ran or it ended
\* with errNotFound; any other error of the offset search ends the run with
\* that error and no line search; a successful offset search ends the run with
\* one output sequence and no line search; a run in which no search found a
\* struct literal ends with errNotFound.
C5_OffsetThenLine ==
    /\ [i \in 1..Len(ran) |-> ran[i].search]
          \in {<< >>, << "offset" >>, << "line" >>, << "offset", "line" >>}
    /\ Len(emitted) <= 1
    /\ (Loaded /\ pc # "offset" /\ offset > 0) => (ran # << >> /\ ran[1].search = "offset")
    /\ \A i \in 1..Len(ran) :
          ran[i].search = "line" =>
             /\ line > 0
             /\ i = 2 => (ReturnedFrom(1) /\ ran[1].err = errNotFound)
    /\ (ran # << >> /\ ran[1].search = "offset" /\ ReturnedFrom(1)) =>
          CASE ran[1].err = "nil" ->
                    /\ Len(ran) = 1 /\ pc = "done" /\ exit = "ok"
                    /\ Len(emitted) = 1 /\ Len(emitted[1]) = 1
            [] ran[1].err = errNotFound -> TRUE
            [] OTHER ->
                    /\ Len(ran) = 1 /\ pc = "done" /\ exit = "fatal"
                    /\ err = ran[1].err /\ emitted = << >>
    /\ (pc = "done" /\ Loaded
        /\ \A i \in 1..Len(ran) : ReturnedFrom(i) /\ ran[i].err = errNotFound) =>
          (exit = "fatal" /\ err = errNotFound /\ emitted = << >>)

\* the offset search ended with errNotFound and the line search then succeeded
C5_Witness ==
    /\ pc = "done" /\ exit = "ok" /\ Len(ran) = 2 /\ Len(emitted) = 1
    /\ ran[1] = [search |-> "offset", err |-> errNotFound, st |-> "ok"]
    /\ ran[2] = [search |-> "line", err |-> "nil", st |-> "ok"]

\* the line search returned its records
LineRecords == Len(ran) > 0 /\ ran[Len(ran)] = [search |-> "line", err |-> "nil", st |-> "ok"]

\* C6 (ordering of line-query results): the records byLine returns are in
\* strictly decreasing order of their start offset, whatever their number.
C6_LineOrder ==
    LineRecords =>
        \A k \in 1..Len(emitted) :
            \A i, j \in 1..Len(emitted[k]) :
                i < j => emitted[k][i].Start > emitted[k][j].Start

\* an odd number of records, more than one
C6_Witness ==
    LineRecords /\ Len(emitted) = 1 /\ Len(emitted[1]) = 3

\* the struct literals whose lines cover the flag -line
StructsOnLine ==
    {i \in 1..Len(file.lits) : IsStruct(Underlying(file.lits[i].typ)) /\ Covers(file, i, line)}

\* C7 (not-found for line search): byLine returns errNotFound if and only if
\* no struct literal covers the line; when one does, byLine returns its
\* records with no error, whatever other composite literals cover the line.
C7_LineNotFoundIff ==
    \A i \in 1..Len(ran) :
        (ran[i].search = "line" /\ ReturnedFrom(i) /\ ran[i].err # errEncode) =>
            /\ ran[i].err = errNotFound <=> StructsOnLine = {}
            /\ StructsOnLine # {} => (ran[i].err = "nil" /\ Len(emitted) = 1)

\* the struct literals around the flag -offset
StructsAround ==
    {i \in Enclosing(file.lits, offset) : IsStruct(Underlying(file.lits[i].typ))}

\* C8 (not-found for offset search): the offset search ends with errNotFound
\* if and only if no struct literal encloses the position; when one does, the
\* record of a struct literal around the position is returned, also when a
\* literal of an array, slice or map type nested in it is the innermost one.
C8_OffsetNotFoundIff ==
    (/\ ran # << >> /\ ran[1].search = "offset" /\ ReturnedFrom(1)
     /\ ran[1].err \notin {errFileSize, errEncode}) =>
        /\ ran[1].err = errNotFound <=> StructsAround = {}
        /\ StructsAround # {} =>
              /\ ran[1].err = "nil"
              /\ Len(emitted) = 1 /\ Len(emitted[1]) = 1
              /\ emitted[1][1].lit \in StructsAround

----------------------------------------------------------------------------
\* e is the zero value zero produces for a value of type t inside a literal that
\* already names the type
IsZeroOf(e, t) ==
    LET u == Underlying(t)
    IN CASE u.kind = "Basic" -> e # NoExpr /\ StripPos(e) = ZeroBasic(u.bkind, 0)
         [] u.kind \in {"Chan", "Interface", "Signature", "Slice"} ->
               StripPos(e) = Ident("nil", 0)
         [] u.kind = "Pointer" ->
               IF IsStruct(Underlying(u.elem))
               THEN e.node = "CompositeLit" /\ e.gtyp = Underlying(u.elem) /\ e.Type = NoExpr
               ELSE StripPos(e) = Ident("nil", 0)
         [] u.kind = "Map" -> e.node = "CompositeLit" /\ e.gtyp = u
         [] OTHER -> e.node = "CompositeLit" /\ e.gtyp = u /\ e.Type = NoExpr

\* the last position marker zero set in value v
EndPos(v) ==
    CASE v.node = "CompositeLit" -> IF v.gcut THEN v.Lbrace ELSE v.Rbrace
      [] v.node = "BasicLit" -> v.ValuePos
      [] OTHER -> v.NamePos

\* the keys of struct literal l follow each other without a gap: a field that
\* got no entry left the position counter where it was
Dense(l) ==
    \A i \in 1..Len(l.Elts) :
        l.Elts[i].Key.NamePos = (IF i = 1 THEN l.Lbrace ELSE EndPos(l.Elts[i - 1].Value)) + 1

\* the key or the element type of map type t cannot be rendered
MapUnrenderable(p, t) == ~TypeString(p, t.key).ok \/ ~TypeString(p, t.elem).ok

\* the struct literals of the result none of whose entries is a reused one
FreshStructs == {n \in BuiltStructs : n.parent # "top" \/ lit.Elts = << >>}

\* the map literal has the explicit type names and one entry
C9_MapShape(n) ==
    /\ n.lit.Type.node = "MapType"
    /\ n.lit.Type.Key = NewIdent(TypeString(pkg, n.lit.gtyp.key).name)
    /\ n.lit.Type.Value = NewIdent(TypeString(pkg, n.lit.gtyp.elem).name)
    /\ Len(n.lit.Elts) = 1
    /\ n.lit.Elts[1].node = "KeyValueExpr"

\* a struct literal has no entry for a map field that cannot be rendered, and
\* its position markers show no trace of the field
C9_Omitted ==
    \A n \in FreshStructs :
        ~n.lit.gcut =>
            /\ \A i \in 1..Len(StructFields(n.lit.gtyp.id)) :
                  LET field == StructFields(n.lit.gtyp.id)[i]
                  IN (field.typ.kind = "Map" /\ MapUnrenderable(pkg, field.typ))
                        => EntryCount(n.lit, field.name) = 0
            /\ Dense(n.lit)

\* C9 (map defaulting): the literal zero builds for a struct field of map type
\* has the explicit key and value type names and exactly one entry, whose key and
\* value are both present and are the zero values of the key and element types;
\* when the key or the element type cannot be rendered the struct has no entry
\* for the field and the position counter is as if the field had been skipped.
C9_MapDefaulting ==
    Returned =>
        /\ \A n \in BuiltMaps :
              n.parent = "Struct" =>
                  /\ C9_MapShape(n)
                  /\ n.lit.Elts[1].Key # NoExpr
                  /\ n.lit.Elts[1].Value # NoExpr
                  /\ IsZeroOf(n.lit.Elts[1].Key, n.lit.gtyp.key)
                  /\ IsZeroOf(n.lit.Elts[1].Value, n.lit.gtyp.elem)
        /\ C9_Omitted

----------------------------------------------------------------------------
\* zero returns no value for an element of type elem: the type is invalid, or a
\* map type whose key or element type cannot be rendered
ElemOmitted(p, elem) ==
    LET u == Underlying(elem)
    IN \/ u.kind = "Basic" /\ u.bkind = "Invalid"
       \/ u.kind = "Map" /\ MapUnrenderable(p, u)

\* the type annotation of an array literal: present unless the parent, an array
\* or map literal, already gives the type
C10_Annotation(n) ==
    IF n.parent = "Struct"
    THEN /\ n.lit.Type.node = "ArrayType"
         /\ n.lit.Type.Len.Value = ToString(n.lit.gtyp.len)
         /\ n.lit.Type.Elt = NewIdent(TypeString(pkg, n.lit.gtyp.elem).name)
    ELSE n.lit.Type = NoExpr

\* C10 as stated (array defaulting): every array literal zero returns for a type
\* of length N has exactly N elements, each the zero value of the element type,
\* and carries its type annotation unless the parent already annotates it.
C10_ExactlyN ==
    Returned =>
        \A n \in BuiltArrays :
            /\ Len(n.lit.Elts) = n.lit.gtyp.len
            /\ \A i \in 1..Len(n.lit.Elts) : IsZeroOf(n.lit.Elts[i], n.lit.gtyp.elem)
            /\ C10_Annotation(n)

\* C10 as amended: every array literal zero returns for a type of length N has
\* exactly N elements, each the zero value of the element type, unless zero
\* returns no value for the element type (an invalid type, or a map type whose key
\* or element type cannot be rendered), in which case it has no elements; it
\* carries its type annotation unless the parent already annotates it.
C10_ArrayDefaulting ==
    Returned =>
        \A n \in BuiltArrays :
            /\ Len(n.lit.Elts) = IF ElemOmitted(pkg, n.lit.gtyp.elem) THEN 0
                                 ELSE n.lit.gtyp.len
            /\ \A i \in 1..Len(n.lit.Elts) : IsZeroOf(n.lit.Elts[i], n.lit.gtyp.elem)
            /\ C10_Annotation(n)

\* Arrs: an empty array, an array of MaxArrayLen elements, and an array of arrays
\* whose inner literals leave the type to the outer one
C10_Witness ==
    /\ Returned
    /\ \E n \in BuiltArrays : n.lit.gtyp.len = 0 /\ n.lit.Elts = << >>
    /\ \E n \in BuiltArrays : Len(n.lit.Elts) = MaxArrayLen /\ n.lit.Type # NoExpr
    /\ \E n \in BuiltArrays : n.parent = "Array" /\ n.lit.Type = NoExpr /\ Len(n.lit.Elts) = 1

----------------------------------------------------------------------------
\* entry e of the struct literal n was written by zero, not taken from the input
Synthesized(n, e) == ~(n.parent = "top" /\ e.Key.Name \in ExistingKeys)

\* the declared field an entry of a literal of struct id stands for
FieldFor(id, e) == StructFields(id)[FieldIndex(id, e.Key.Name)]

\* C11 (pointer defaulting): the value zero writes for a field of pointer type
\* is nil when the pointee is not a struct, and a struct literal when it is, and
\* then every type name the literal renders is the pointee's name with the
\* prefix &; the literal of a field of struct type renders its name without
\* the prefix, whatever pointer fields stand above or beside it.
C11_PointerDefaulting ==
    Returned =>
        \A n \in BuiltStructs :
            \A i \in 1..Len(n.lit.Elts) :
                LET e == n.lit.Elts[i]
                    t == FieldFor(n.lit.gtyp.id, e).typ
                IN Synthesized(n, e) =>
                    CASE t.kind = "Pointer" /\ ~IsStruct(Underlying(t.elem)) ->
                            StripPos(e.Value) = Ident("nil", 0)
                      [] t.kind = "Pointer" ->
                            /\ e.Value.node = "CompositeLit"
                            /\ e.Value.gtyp = Underlying(t.elem)
                            /\ e.Value.Type # NoExpr =>
                                  e.Value.Type.Name = "&" \o TypeString(pkg, t.elem).name
                      [] IsStruct(Underlying(t)) ->
                            /\ e.Value.node = "CompositeLit"
                            /\ e.Value.Type # NoExpr =>
                                  e.Value.Type.Name = TypeString(pkg, t).name
                      [] OTHER -> TRUE

----------------------------------------------------------------------------
\* C12 (termination): for every type reachable from the literal's struct type,
\* self-referential ones included, the descent of zero comes to an end: the
\* depth of the nested zero calls stays below MaxDepth.
C12_Terminates ==
    pc = "returned" => res.st # "diverged"

----------------------------------------------------------------------------
\* what zeroValue returns for the same literal type when the literal is empty
Baseline ==
    ZeroValue(pkg, [lit EXCEPT !.Elts = << >>], info, env.colonRead)

\* C13 (pre-existing entries affect only the outermost level): every entry of
\* the outermost literal that zero synthesized has, up to position markers, the
\* value it has in the run on the empty literal of the same type, so that the
\* nested literals do not depend on the entries the user wrote.
C13_NestedIndependent ==
    (Returned /\ Baseline.st = "ok" /\ Baseline.expr # NoExpr) =>
        \A i \in 1..Len(res.expr.Elts) :
            res.expr.Elts[i].Key.Name \notin ExistingKeys =>
                \E j \in 1..Len(Baseline.expr.Elts) :
                    /\ Baseline.expr.Elts[j].Key.Name = res.expr.Elts[i].Key.Name
                    /\ StripPos(Baseline.expr.Elts[j].Value)
                         = StripPos(res.expr.Elts[i].Value)

----------------------------------------------------------------------------
\* literal i of the file is an element or a value of an array, slice or map
\* literal: the literal right around it already gives its type
ParentAnnotates(f, i) ==
    /\ f[i].parent # 0
    /\ f[i].via \in {"elt", "kv"}
    /\ Underlying(f[f[i].parent].typ).kind \in {"Array", "Slice", "Map"}

\* C14 (type-hiding hint): for every record the offset search or the line
\* search returns, the literal was synthesized with hideType true if and only
\* if the literal right around it in the file is an array, slice or map
\* literal, whatever other literals stand on the same line.
C14_HideTypeIffParent ==
    \A k \in 1..Len(emitted) :
        \A i \in 1..Len(emitted[k]) :
            emitted[k][i].hide <=> ParentAnnotates(file.lits, emitted[k][i].lit)

----------------------------------------------------------------------------
RECURSIVE Markers(_)
\* the position markers zero and fixExprPos set in e: those of keys, values and
\* braces, and inside an entry taken from the input every marker fixExprPos
\* assigns (the type names zero creates with ast.NewIdent carry no position)
Markers(e) ==
    LET all(es) == UNION {Markers(es[i]) : i \in 1..Len(es)}
    IN CASE e.node = "BasicLit" -> {e.ValuePos}
         [] e.node = "Ident" -> {e.NamePos}
         [] e.node = "KeyValueExpr" -> Markers(e.Key) \cup Markers(e.Value)
         [] e.node = "CompositeLit" ->
                {e.Lbrace, e.Rbrace} \cup all(e.Elts)
                \cup (IF e.gtyp = NoType THEN Markers(e.Type) ELSE {})
         [] e.node = "BinaryExpr" -> {e.OpPos} \cup Markers(e.X) \cup Markers(e.Y)
         [] e.node = "CallExpr" -> {e.Lparen, e.Rparen} \cup Markers(e.Fun) \cup all(e.Args)
         [] e.node = "UnaryExpr" -> {e.OpPos} \cup Markers(e.X)
         [] e.node = "StarExpr" -> {e.Star} \cup Markers(e.X)
         [] e.node = "ParenExpr" -> {e.Lparen}
         [] e.node = "SelectorExpr" -> {e.Sel.NamePos} \cup Markers(e.X)
         [] e.node = "IndexExpr" ->
                {e.Lbrack, e.Rbrack} \cup Markers(e.X) \cup Markers(e.Index)
         [] OTHER -> {}

RECURSIVE Braces(_)
\* the pairs <<Lbrace, Rbrace>> of the composite literals in e
Braces(e) ==
    CASE e.node = "CompositeLit" ->
            {<< e.Lbrace, e.Rbrace >>} \cup UNION {Braces(e.Elts[i]) : i \in 1..Len(e.Elts)}
      [] e.node = "KeyValueExpr" -> Braces(e.Key) \cup Braces(e.Value)
      [] e.node \in {"UnaryExpr", "StarExpr"} -> Braces(e.X)
      [] OTHER -> {}

\* C15 (position markers stay inside the synthetic file): in what zeroValue
\* returns every marker zero or fixExprPos set is at least 1 and at most
\* lines + 1, and no closing brace is before its opening brace.
C15_MarkersInFile ==
    Returned =>
        /\ \A m \in Markers(res.expr) : 1 <= m /\ m <= res.lines + 1
        /\ \A b \in Braces(res.expr) : b[1] <= b[2]

\* the struct literals of the file nested inside literal i whose lines cover
\* the flag -line
NestedOnLine(i) ==
    {j \in 1..Len(file.lits) :
        /\ j # i
        /\ i \in Chain(file.lits, j)
        /\ IsStruct(Underlying(file.lits[j].typ))
        /\ Covers(file, j, line)}

\* C16 (spans of one line search): any two records byLine returns have
\* disjoint [start, end) byte ranges, and no record is for a literal nested
\* inside the literal of another record.
C16_SpansDisjoint ==
    LineRecords =>
        \A k \in 1..Len(emitted) :
            \A i, j \in 1..Len(emitted[k]) :
                i # j =>
                    /\ \/ emitted[k][i].End <= emitted[k][j].Start
                       \/ emitted[k][j].End <= emitted[k][i].Start
                    /\ emitted[k][i].lit \notin Chain(file.lits, emitted[k][j].lit)

\* two records, one of them for a literal that has a struct literal nested in
\* it on the line
C16_Witness ==
    /\ LineRecords
    /\ Len(emitted) = 1
    /\ Len(emitted[1]) >= 2
    /\ \E i \in 1..Len(emitted[1]) : NestedOnLine(emitted[1][i].lit) # {}

====
